---- MODULE Spec2Model ----
(***************************************************************************)
(* The realtime (socket.io) part of src/Server.js: the register,           *)
(* send-message, call-user, join-call-room, end-call and disconnect        *)
(* handlers, the in-memory activeCalls map, the socket.io rooms, and the   *)
(* Chat and Call collections the handlers write.                           *)
(*                                                                         *)
(* A handler runs without interruption up to an await of a persistence     *)
(* call, so each handler is one action up to its await, the persistence    *)
(* call is settled by the store in a step of its own, and the rest of the  *)
(* handler is the action that resumes it.                                  *)
(***************************************************************************)
EXTENDS Integers, Sequences, FiniteSets, Bags, TLC

\* ------------------------------------------------------------- bounds
NSockets   == 3   \* sockets that may connect
MaxEmits   == 3   \* events emitted to clients in one behaviour
MaxChats   == 1   \* documents in the chats collection
MaxCalls   == 2   \* documents in the calls collection
MaxPending == 2   \* handlers suspended at an await at the same time
MaxIdLen   == 2   \* length of the identities given to the conversation id

Sockets == 1..NSockets

\* ------------------------------------------------------ JavaScript values
\* Strings are sequences of UTF-16 code units.
Space      == 32
Underscore == 95

Undef   == [t |-> "undefined"]
Str(s)  == [t |-> "string", s |-> s]
Num(n)  == [t |-> "number", n |-> n]

\* !v
Truthy(v) ==
  CASE v.t = "undefined" -> FALSE
    [] v.t = "string"    -> v.s # <<>>
    [] v.t = "number"    -> v.n # 0

\* v.toString(), for strings and the numbers 0..9
toString(v) == IF v.t = "number" THEN <<48 + v.n>> ELSE v.s

\* The cast of a value to a String path of a mongoose schema: an absent value
\* stays absent.
CastString(v) == IF v.t = "undefined" THEN Undef ELSE Str(toString(v))

RECURSIVE TrimStart(_)
TrimStart(s) ==
  IF s # <<>> /\ Head(s) = Space THEN TrimStart(Tail(s)) ELSE s

RECURSIVE TrimEnd(_)
TrimEnd(s) ==
  IF s # <<>> /\ s[Len(s)] = Space THEN TrimEnd(SubSeq(s, 1, Len(s) - 1)) ELSE s

\* String.prototype.trim
Trim(s) == TrimEnd(TrimStart(s))

\* a < b for strings: the order of the code units
RECURSIVE StrLess(_, _)
StrLess(a, b) ==
  IF b = <<>> THEN FALSE
  ELSE IF a = <<>> THEN TRUE
  ELSE IF Head(a) # Head(b) THEN Head(a) < Head(b)
  ELSE StrLess(Tail(a), Tail(b))

\* [a, b].sort() without a comparator
SortPair(a, b) == IF StrLess(b, a) THEN <<b, a>> ELSE <<a, b>>

ConversationIdUnsorted(a, b) == a \o <<Underscore>> \o b

\* [a, b].sort().join("_")
ConversationId(a, b) ==
  LET p == SortPair(a, b) IN p[1] \o <<Underscore>> \o p[2]

\* ------------------------------------------------------------- inputs
SA == <<97>>
SB == <<98>>
SH == <<104>>

\* identities a client may send: absent, "", "a", "b"
IdInputs   == {Undef, Str(<<>>), Str(SA), Str(SB)}
\* channels a client may send: absent, "", "a" (also an identity), "c"
ChanInputs == {Undef, Str(<<>>), Str(SA), Str(<<99>>)}
\* one channel only: absent, "", "c"
OneChanInputs == {Undef, Str(<<>>), Str(<<99>>)}
Channels == {c \in OneChanInputs : Truthy(c)}
\* two call channels: "c" and "d"
TwoChannels == {Str(<<99>>), Str(<<100>>)}
\* message bodies: absent, "", " ", " h"
MsgInputs  == {Undef, Str(<<>>), Str(<<Space>>), Str(<<Space>> \o SH)}

Payload(sender, receiver, message) ==
  [sender |-> sender, receiver |-> receiver, message |-> message]

\* send-message payloads: a to b, b to a and a to a with every body, and a
\* to b with the sender or the receiver absent or empty
SendInputs ==
  {Payload(Str(SA), Str(SB), m) : m \in MsgInputs}
    \cup {Payload(Str(SB), Str(SA), m) : m \in MsgInputs}
    \cup {Payload(Str(SA), Str(SA), m) : m \in MsgInputs}
    \cup {Payload(x, Str(SB), Str(SH)) : x \in {Undef, Str(<<>>)}}
    \cup {Payload(Str(SA), x, Str(SH)) : x \in {Undef, Str(<<>>)}}
    \cup {Payload(Undef, Undef, Undef)}

CallPayload(to, from, channel) ==
  [to |-> to, from |-> from, channel |-> channel]

\* call-user payloads: "a" calls "b" on "c", the same with `to`, `from` or
\* `channel` absent, and the empty object
CallInputs ==
  {CallPayload(Str(SB), Str(SA), Str(<<99>>)),
   CallPayload(Undef, Str(SA), Str(<<99>>)),
   CallPayload(Str(SB), Undef, Str(<<99>>)),
   CallPayload(Str(SB), Str(SA), Undef),
   CallPayload(Undef, Undef, Undef)}

\* ------------------------------------------------------------- state
VARIABLES
  conn,         \* socket -> "fresh" | "connected" | "disconnected"
  userId,       \* socket.userId
  callChannel,  \* socket.callChannel
  rooms,        \* socket -> the socket.io rooms it has joined
  activeCalls,  \* the Map channel -> Set(socket ids)
  calls,        \* the calls collection, in insertion order
  chats,        \* the chats collection, in insertion order
  pending,      \* bag of the handlers suspended at an await
  emitted,      \* bag of the events emitted to rooms so far (history)
  acked,        \* the sockets sent joined-call-room so far (history)
  last,         \* the step taken last (history)
  conv          \* the conversation id computations (pure-function checks)

vars == <<conn, userId, callChannel, rooms, activeCalls, calls, chats,
          pending, emitted, acked, last, conv>>

\* everything but the history variable `last`
progVars == <<conn, userId, callChannel, rooms, activeCalls, calls, chats,
              pending, emitted, acked>>

One(e) == SetToBag({e})

BagWhere(B, P(_)) == [e \in {x \in BagToSet(B) : P(x)} |-> B[e]]

Count(B, P(_)) == BagCardinality(BagWhere(B, P))

\* the sockets io.to(room).emit reaches, given the room membership r
Members(r, room) == {x \in Sockets : room \in r[x]}

EmitRec(ev, room, payload, to, by) ==
  [ev |-> ev, room |-> room, payload |-> payload, to |-> to, by |-> by]

\* who emitted an event (history): the kind of handler, and for a termination
\* where the call stood when the handler began
By(p) ==
  IF p.kind \in {"end-call", "disconnect"}
  THEN [kind |-> p.kind, began |-> p.began]
  ELSE [kind |-> p.kind]

\* the events the suspended handler p emits at most when it resumes
Reserve(p) ==
  CASE p.kind = "send-message" -> 2
    [] p.kind = "call-user"    -> 1
    [] p.kind = "end-call"     -> 1
    [] p.kind = "disconnect"   -> 0

RECURSIVE Reserved(_)
Reserved(B) ==
  IF BagToSet(B) = {} THEN 0
  ELSE LET p == CHOOSE x \in BagToSet(B) : TRUE
       IN Reserve(p) + Reserved(B (-) One(p))

\* room for k more emitted events
CanEmit(k) == BagCardinality(emitted) + Reserved(pending) + k <= MaxEmits

CanSuspend == BagCardinality(pending) < MaxPending

Creating(kind) == Count(pending, LAMBDA p : p.kind = kind /\ p.phase = "await")

\* no call has been started yet
FirstCall == Len(calls) + Creating("call-user") = 0

NoConv == [op |-> "none"]

InitState ==
  /\ conn = [s \in Sockets |-> "fresh"]
  /\ userId = [s \in Sockets |-> Undef]
  /\ callChannel = [s \in Sockets |-> Undef]
  /\ rooms = [s \in Sockets |-> {}]
  /\ activeCalls = [c \in {} |-> {}]
  /\ calls = <<>>
  /\ chats = <<>>
  /\ pending = EmptyBag
  /\ emitted = EmptyBag
  /\ acked = {}
  /\ last = [kind |-> "listen"]

Init == InitState /\ conv = NoConv

\* ------------------------------------------------------------- handlers
\* io.on("connection")
Connection(s) ==
  /\ conn[s] = "fresh"
  /\ \A x \in Sockets : x < s => conn[x] # "fresh"
  /\ conn' = [conn EXCEPT ![s] = "connected"]
  /\ UNCHANGED <<userId, callChannel, rooms, activeCalls, calls, chats,
                 pending, emitted, acked, conv>>

RegisterToggles(s, u) ==
  /\ conn[s] = "connected"
  /\ IF ~Truthy(u)
     THEN UNCHANGED <<rooms, userId>>
     ELSE LET room == Str(toString(u))
          IN /\ rooms' = [rooms EXCEPT ![s] =
                            IF room \in @ THEN @ \ {room} ELSE @ \cup {room}]
             /\ userId' = [userId EXCEPT ![s] =
                             IF @ = room THEN Undef ELSE room]
  /\ UNCHANGED <<conn, callChannel, activeCalls, calls, chats, pending,
                 emitted, acked, conv>>

\* socket.on("register")
Register(s, u) ==
  /\ conn[s] = "connected"
  /\ IF ~Truthy(u)
     THEN UNCHANGED <<rooms, userId>>
     ELSE LET room == Str(toString(u))
          IN /\ rooms' = [rooms EXCEPT ![s] = @ \cup {room}]
             /\ userId' = [userId EXCEPT ![s] = room]
  /\ UNCHANGED <<conn, callChannel, activeCalls, calls, chats, pending,
                 emitted, acked, conv>>

RejectedNoBody(sender, receiver, message) ==
  ~Truthy(sender) \/ ~Truthy(receiver)

\* !data?.sender || !data?.receiver || !data?.message
Rejected(sender, receiver, message) ==
  ~Truthy(sender) \/ ~Truthy(receiver) \/ ~Truthy(message)

SendConversationIdUnsorted(sender, receiver) ==
  ConversationIdUnsorted(toString(sender), toString(receiver))

\* the conversation id send-message gives a message
SendConversationId(sender, receiver) ==
  ConversationId(toString(sender), toString(receiver))

\* the conversation id GET /messages/:u1/:u2 looks up; route parameters are
\* strings
LookupConversationId(u1, u2) == ConversationId(u1, u2)

\* socket.on("send-message"), up to the await of Chat.create
SendMessage(s, sender, receiver, message) ==
  /\ conn[s] = "connected"
  /\ IF Rejected(sender, receiver, message)
     THEN UNCHANGED pending
     ELSE IF message.t # "string"
     THEN UNCHANGED pending   \* message.trim is not a function: caught
     ELSE /\ CanSuspend
          /\ CanEmit(2)
          /\ Len(chats) + Creating("send-message") < MaxChats
          /\ pending' = pending (+) One(
               [kind |-> "send-message", phase |-> "await",
                doc |-> [conversationId |->
                           Str(SendConversationId(sender, receiver)),
                         sender |-> Str(toString(sender)),
                         receiver |-> Str(toString(receiver)),
                         message |-> Str(Trim(message.s))],
                res |-> Undef])
  /\ UNCHANGED <<conn, userId, callChannel, rooms, activeCalls, calls, chats,
                 emitted, acked, conv>>

\* Chat.create settles: the document is stored, or the call is rejected
ChatCreate(p, ok) ==
  /\ p \in BagToSet(pending)
  /\ p.kind = "send-message" /\ p.phase = "await"
  /\ LET stored == [_id |-> Len(chats) + 1,
                    conversationId |-> p.doc.conversationId,
                    sender |-> p.doc.sender, receiver |-> p.doc.receiver,
                    message |-> p.doc.message]
         q == IF ok THEN [p EXCEPT !.phase = "ok", !.res = stored]
                    ELSE [p EXCEPT !.phase = "fail"]
     IN /\ chats' = IF ok THEN Append(chats, stored) ELSE chats
        /\ pending' = (pending (-) One(p)) (+) One(q)
  /\ UNCHANGED <<conn, userId, callChannel, rooms, activeCalls, calls,
                 emitted, acked, conv>>

\* the new-message events send-message emits for the stored record msg
NewMessageEmits(p) ==
  One(EmitRec("new-message", p.res.sender, p.res,
              Members(rooms, p.res.sender), By(p)))
  (+) One(EmitRec("new-message", p.res.receiver, p.res,
                  Members(rooms, p.res.receiver), By(p)))

ResumeSendMessageUnsaved(p) ==
  /\ p \in BagToSet(pending)
  /\ p.kind = "send-message" /\ p.phase \in {"ok", "fail"}
  /\ pending' = pending (-) One(p)
  /\ emitted' = emitted
       (+) One(EmitRec("new-message", p.doc.sender, p.doc,
                       Members(rooms, p.doc.sender), By(p)))
       (+) One(EmitRec("new-message", p.doc.receiver, p.doc,
                       Members(rooms, p.doc.receiver), By(p)))
  /\ UNCHANGED <<conn, userId, callChannel, rooms, activeCalls, calls, chats,
                 acked, conv>>

\* socket.on("send-message"), after the await
ResumeSendMessage(p) ==
  /\ p \in BagToSet(pending)
  /\ p.kind = "send-message" /\ p.phase \in {"ok", "fail"}
  /\ pending' = pending (-) One(p)
  /\ emitted' = IF p.phase = "ok" THEN emitted (+) NewMessageEmits(p)
                ELSE emitted
  /\ UNCHANGED <<conn, userId, callChannel, rooms, activeCalls, calls, chats, acked,
                 conv>>

\* socket.on("call-user"), up to the await of Call.create
CallUser(s, to, from, channel) ==
  /\ conn[s] = "connected"
  /\ CanSuspend
  /\ CanEmit(1)
  /\ Len(calls) + Creating("call-user") < MaxCalls
  /\ pending' = pending (+) One(
       [kind |-> "call-user", phase |-> "await",
        doc |-> [caller |-> CastString(from), receiver |-> CastString(to),
                 channel |-> CastString(channel), status |-> "ongoing"],
        to |-> to, from |-> from, channel |-> channel])
  /\ UNCHANGED <<conn, userId, callChannel, rooms, activeCalls, calls, chats,
                 emitted, acked, conv>>

CallCreateUpserts(p, ok) ==
  /\ p \in BagToSet(pending)
  /\ p.kind = "call-user" /\ p.phase = "await"
  /\ LET stored == [_id |-> Len(calls) + 1, caller |-> p.doc.caller,
                    receiver |-> p.doc.receiver, channel |-> p.doc.channel,
                    status |-> p.doc.status]
         q == [p EXCEPT !.phase = IF ok THEN "ok" ELSE "fail"]
         known == \E i \in DOMAIN calls : calls[i].channel = p.doc.channel
     IN /\ calls' =
             IF ~ok THEN calls
             ELSE IF known
             THEN [i \in DOMAIN calls |->
                     IF calls[i].channel = p.doc.channel
                     THEN [stored EXCEPT !._id = i] ELSE calls[i]]
             ELSE Append(calls, stored)
        /\ pending' = (pending (-) One(p)) (+) One(q)
  /\ UNCHANGED <<conn, userId, callChannel, rooms, activeCalls, chats,
                 emitted, acked, conv>>

\* Call.create settles
CallCreate(p, ok) ==
  /\ p \in BagToSet(pending)
  /\ p.kind = "call-user" /\ p.phase = "await"
  /\ LET stored == [_id |-> Len(calls) + 1, caller |-> p.doc.caller,
                    receiver |-> p.doc.receiver, channel |-> p.doc.channel,
                    status |-> p.doc.status]
         q == [p EXCEPT !.phase = IF ok THEN "ok" ELSE "fail"]
     IN /\ calls' = IF ok THEN Append(calls, stored) ELSE calls
        /\ pending' = (pending (-) One(p)) (+) One(q)
  /\ UNCHANGED <<conn, userId, callChannel, rooms, activeCalls, chats,
                 emitted, acked, conv>>

ResumeCallUserUnsaved(p) ==
  /\ p \in BagToSet(pending)
  /\ p.kind = "call-user" /\ p.phase \in {"ok", "fail"}
  /\ pending' = pending (-) One(p)
  /\ emitted' =
       IF p.to.t # "undefined"
       THEN emitted (+) One(
              EmitRec("incoming-call", Str(toString(p.to)),
                      [from |-> p.from, channel |-> p.channel],
                      Members(rooms, Str(toString(p.to))), By(p)))
       ELSE emitted
  /\ UNCHANGED <<conn, userId, callChannel, rooms, activeCalls, calls, chats, acked,
                 conv>>

\* socket.on("call-user"), after the await; to.toString() throws on an absent
\* `to`, inside the try
ResumeCallUser(p) ==
  /\ p \in BagToSet(pending)
  /\ p.kind = "call-user" /\ p.phase \in {"ok", "fail"}
  /\ pending' = pending (-) One(p)
  /\ emitted' =
       IF p.phase = "ok" /\ p.to.t # "undefined"
       THEN emitted (+) One(
              EmitRec("incoming-call", Str(toString(p.to)),
                      [from |-> p.from, channel |-> p.channel],
                      Members(rooms, Str(toString(p.to))), By(p)))
       ELSE emitted
  /\ UNCHANGED <<conn, userId, callChannel, rooms, activeCalls, calls, chats, acked,
                 conv>>

\* activeCalls.set(channel, set)
MapSet(m, k, v) == [c \in DOMAIN m \cup {k} |-> IF c = k THEN v ELSE m[c]]

\* activeCalls.delete(channel)
MapDelete(m, k) == [c \in DOMAIN m \ {k} |-> m[c]]

\* socket.on("join-call-room")
JoinCallRoom(s, channel) ==
  /\ conn[s] = "connected"
  /\ IF ~Truthy(channel)
     THEN UNCHANGED <<rooms, activeCalls, callChannel, acked>>
     ELSE /\ rooms' = [rooms EXCEPT ![s] = @ \cup {channel}]
          /\ activeCalls' =
               MapSet(activeCalls, channel,
                      (IF channel \in DOMAIN activeCalls
                       THEN activeCalls[channel] ELSE {}) \cup {s})
          /\ callChannel' = [callChannel EXCEPT ![s] = channel]
          /\ acked' = acked \cup {s}
  /\ UNCHANGED <<conn, userId, calls, chats, pending, emitted, conv>>

\* Call.find({channel, status: "ongoing"}) is not empty
Ongoing(channel) ==
  \E i \in DOMAIN calls :
    calls[i].channel = CastString(channel) /\ calls[i].status = "ongoing"

\* the call of the channel is over: no membership entry, no ongoing record
Terminated(channel) ==
  channel \notin DOMAIN activeCalls /\ ~Ongoing(channel)

\* where the call of the channel stands when a terminating handler begins
\* (history): "live" with a membership entry, "unjoined" with an ongoing
\* record and no entry, "over" when terminated
Began(channel) ==
  IF channel \in DOMAIN activeCalls THEN "live"
  ELSE IF Ongoing(channel) THEN "unjoined" ELSE "over"

\* socket.on("end-call"), up to the await of Call.updateMany
EndCall(s, channel) ==
  /\ conn[s] = "connected"
  /\ IF ~Truthy(channel)
     THEN UNCHANGED pending
     ELSE /\ CanSuspend
          /\ CanEmit(1)
          /\ pending' = pending (+) One(
               [kind |-> "end-call", phase |-> "await",
                channel |-> channel,
                began |-> Began(channel)])
  /\ UNCHANGED <<conn, userId, callChannel, rooms, activeCalls, calls, chats,
                 emitted, acked, conv>>

CallUpdateManyAnyChannel(p, ok) ==
  /\ p \in BagToSet(pending)
  /\ p.kind \in {"end-call", "disconnect"} /\ p.phase = "await"
  /\ LET q == [p EXCEPT !.phase = IF ok THEN "ok" ELSE "fail"]
     IN /\ calls' =
             IF ok
             THEN [i \in DOMAIN calls |->
                     IF calls[i].status = "ongoing"
                     THEN [calls[i] EXCEPT !.status = "ended"]
                     ELSE calls[i]]
             ELSE calls
        /\ pending' = (pending (-) One(p)) (+) One(q)
  /\ UNCHANGED <<conn, userId, callChannel, rooms, activeCalls, chats,
                 emitted, acked, conv>>

\* Call.updateMany({channel, status: "ongoing"}, {$set: {status: "ended"}})
\* settles
CallUpdateMany(p, ok) ==
  /\ p \in BagToSet(pending)
  /\ p.kind \in {"end-call", "disconnect"} /\ p.phase = "await"
  /\ LET q == [p EXCEPT !.phase = IF ok THEN "ok" ELSE "fail"]
     IN /\ calls' =
             IF ok
             THEN [i \in DOMAIN calls |->
                     IF /\ calls[i].channel = CastString(p.channel)
                        /\ calls[i].status = "ongoing"
                     THEN [calls[i] EXCEPT !.status = "ended"]
                     ELSE calls[i]]
             ELSE calls
        /\ pending' = (pending (-) One(p)) (+) One(q)
  /\ UNCHANGED <<conn, userId, callChannel, rooms, activeCalls, chats,
                 emitted, acked, conv>>

CallEnded(r, channel, by) ==
  EmitRec("call-ended", channel, Undef, Members(r, channel), by)

ResumeEndCallClears(p) ==
  /\ p \in BagToSet(pending)
  /\ p.kind = "end-call" /\ p.phase \in {"ok", "fail"}
  /\ pending' = pending (-) One(p)
  /\ emitted' = emitted (+) One(CallEnded(rooms, p.channel, By(p)))
  /\ activeCalls' = MapSet(activeCalls, p.channel, {})
  /\ UNCHANGED <<conn, userId, callChannel, rooms, calls, chats, acked, conv>>

ResumeEndCallOnlySaved(p) ==
  /\ p \in BagToSet(pending)
  /\ p.kind = "end-call" /\ p.phase \in {"ok", "fail"}
  /\ pending' = pending (-) One(p)
  /\ IF p.phase = "ok"
     THEN /\ emitted' = emitted (+) One(CallEnded(rooms, p.channel, By(p)))
          /\ activeCalls' = MapDelete(activeCalls, p.channel)
     ELSE UNCHANGED <<emitted, activeCalls>>
  /\ UNCHANGED <<conn, userId, callChannel, rooms, calls, chats, acked, conv>>

\* socket.on("end-call"), after the await and its empty catch
ResumeEndCall(p) ==
  /\ p \in BagToSet(pending)
  /\ p.kind = "end-call" /\ p.phase \in {"ok", "fail"}
  /\ pending' = pending (-) One(p)
  /\ emitted' = emitted (+) One(CallEnded(rooms, p.channel, By(p)))
  /\ activeCalls' = MapDelete(activeCalls, p.channel)
  /\ UNCHANGED <<conn, userId, callChannel, rooms, calls, chats, acked, conv>>

\* room.size <= 1
ShouldAutoEndEmpty(room) == Cardinality(room) = 0

ShouldAutoEnd(room) == Cardinality(room) <= 1

\* activeCalls.get(channel), when the disconnect handler goes on past its
\* two early returns
NoRoomAsEmpty(m, channel) ==
  Truthy(channel)

HasRoom(m, channel) ==
  Truthy(channel) /\ channel \in DOMAIN m

\* socket.on("disconnect"), up to the await of Call.updateMany. socket.io has
\* taken the socket out of all its rooms before it emits "disconnect".
Disconnect(s) ==
  /\ conn[s] = "connected"
  /\ conn' = [conn EXCEPT ![s] = "disconnected"]
  /\ rooms' = [rooms EXCEPT ![s] = {}]
  /\ LET channel == callChannel[s]
     IN IF ~HasRoom(activeCalls, channel)
        THEN UNCHANGED <<activeCalls, emitted, pending>>
        ELSE LET room == (IF channel \in DOMAIN activeCalls
                          THEN activeCalls[channel] ELSE {}) \ {s}
             IN /\ activeCalls' = MapSet(activeCalls, channel, room)
                /\ IF ShouldAutoEnd(room)
                   THEN /\ CanSuspend
                        /\ CanEmit(1)
                        /\ emitted' = emitted (+)
                             One(CallEnded(rooms', channel,
                                           [kind |-> "disconnect",
                                            began |-> "live"]))
                        /\ pending' = pending (+) One(
                             [kind |-> "disconnect", sock |-> s,
                              phase |-> "await", channel |-> channel,
                              began |-> "live"])
                   ELSE UNCHANGED <<emitted, pending>>
  /\ UNCHANGED <<userId, callChannel, calls, chats, acked, conv>>

\* socket.on("disconnect"), after the await and its empty catch
ResumeDisconnect(p) ==
  /\ p \in BagToSet(pending)
  /\ p.kind = "disconnect" /\ p.phase \in {"ok", "fail"}
  /\ pending' = pending (-) One(p)
  /\ activeCalls' = MapDelete(activeCalls, p.channel)
  /\ UNCHANGED <<conn, userId, callChannel, rooms, calls, chats, emitted, acked,
                 conv>>

Handlers == BagToSet(pending)

\* The call handlers, for one call of one channel that "b" is called on.
NextCall ==
  \/ \E s \in Sockets : Connection(s) /\ UNCHANGED last
  \/ \E s \in Sockets, c \in Channels :
       FirstCall /\ CallUser(s, Str(SB), Str(SA), c) /\ UNCHANGED last
  \/ \E p \in Handlers, ok \in BOOLEAN : CallCreate(p, ok) /\ UNCHANGED last
  \/ \E p \in Handlers : ResumeCallUser(p) /\ UNCHANGED last
  \/ \E s \in Sockets, c \in OneChanInputs :
       JoinCallRoom(s, c) /\ UNCHANGED last
  \/ \E s \in Sockets, c \in OneChanInputs : EndCall(s, c) /\ UNCHANGED last
  \/ \E p \in Handlers, ok \in BOOLEAN :
       CallUpdateMany(p, ok) /\ UNCHANGED last
  \/ \E p \in Handlers : ResumeEndCall(p) /\ UNCHANGED last
  \/ \E s \in Sockets : Disconnect(s) /\ UNCHANGED last
  \/ \E p \in Handlers : ResumeDisconnect(p) /\ UNCHANGED last

SpecCall == Init /\ [][NextCall]_vars

\* two sockets: a device of the sender and a device of the receiver
Devices == {s \in Sockets : s <= 2}

\* the identity each device registers under
Owner(s) == IF s = 1 THEN Str(SA) ELSE Str(SB)

\* The start of a call from the device of "a" to "b", with every payload a
\* call-user may carry, the joins of the call room and the disconnects.
NextStart ==
  \/ \E s \in Devices : Connection(s) /\ UNCHANGED last
  \/ \E s \in Devices : Register(s, Owner(s)) /\ UNCHANGED last
  \/ \E d \in CallInputs :
       FirstCall /\ CallUser(1, d.to, d.from, d.channel) /\ UNCHANGED last
  \/ \E p \in Handlers, ok \in BOOLEAN : CallCreate(p, ok) /\ UNCHANGED last
  \/ \E p \in Handlers : ResumeCallUser(p) /\ UNCHANGED last
  \/ \E s \in Devices, c \in Channels : JoinCallRoom(s, c) /\ UNCHANGED last
  \/ \E p \in Handlers, ok \in BOOLEAN :
       CallUpdateMany(p, ok) /\ UNCHANGED last
  \/ \E s \in Devices : Disconnect(s) /\ UNCHANGED last
  \/ \E p \in Handlers : ResumeDisconnect(p) /\ UNCHANGED last

SpecStart == Init /\ [][NextStart]_vars

\* The chat handlers. `last` records the event handled.
NextChat ==
  \/ \E s \in Devices :
       Connection(s) /\ last' = [kind |-> "connection"]
  \/ \E s \in Devices, u \in IdInputs :
       /\ Register(s, u)
       /\ last' = [kind |-> "register", sock |-> s, data |-> u,
                   was |-> userId[s]]
  \/ \E s \in Devices, d \in SendInputs :
       /\ SendMessage(s, d.sender, d.receiver, d.message)
       /\ last' = [kind |-> "send-message", data |-> d]
  \/ \E p \in Handlers, ok \in BOOLEAN :
       ChatCreate(p, ok) /\ last' = [kind |-> "settle"]
  \/ \E p \in Handlers :
       ResumeSendMessage(p) /\ last' = [kind |-> "resume"]

SpecChat == Init /\ [][NextChat]_vars

\* The handlers that put a socket into rooms.
NextRooms ==
  \/ \E s \in Devices :
       Connection(s) /\ last' = [kind |-> "connection"]
  \/ \E s \in Devices, u \in IdInputs :
       /\ Register(s, u)
       /\ last' = [kind |-> "register", sock |-> s, data |-> u,
                   was |-> userId[s]]
  \/ \E s \in Devices, c \in ChanInputs :
       /\ JoinCallRoom(s, c)
       /\ last' = [kind |-> "join-call-room", sock |-> s, data |-> c]
  \/ \E s \in Devices :
       Disconnect(s) /\ last' = [kind |-> "disconnect"]

SpecRooms == Init /\ [][NextRooms]_vars

\* The ways a call of the channel "c" ends, between two sockets. `last`
\* records the step taken, and the handler that a resuming step resumes.
NextEnd ==
  \/ \E s \in Devices :
       Connection(s) /\ last' = [kind |-> "connection"]
  \/ \E s \in Devices, c \in Channels :
       /\ FirstCall
       /\ CallUser(s, Str(SB), Str(SA), c)
       /\ last' = [kind |-> "call-user"]
  \/ \E p \in Handlers, ok \in BOOLEAN :
       CallCreate(p, ok) /\ last' = [kind |-> "settle"]
  \/ \E p \in Handlers :
       ResumeCallUser(p) /\ last' = [kind |-> "resume", p |-> p]
  \/ \E s \in Devices, c \in Channels :
       JoinCallRoom(s, c) /\ last' = [kind |-> "join-call-room"]
  \/ \E s \in Devices, c \in Channels :
       EndCall(s, c) /\ last' = [kind |-> "end-call"]
  \/ \E p \in Handlers, ok \in BOOLEAN :
       CallUpdateMany(p, ok) /\ last' = [kind |-> "settle"]
  \/ \E p \in Handlers :
       ResumeEndCall(p) /\ last' = [kind |-> "resume", p |-> p]
  \/ \E s \in Devices :
       Disconnect(s) /\ last' = [kind |-> "disconnect"]
  \/ \E p \in Handlers :
       ResumeDisconnect(p) /\ last' = [kind |-> "resume", p |-> p]

SpecEnd == Init /\ [][NextEnd]_vars

\* The calls that follow one another on the channel "c", between two sockets.
NextRedial ==
  \/ \E s \in Devices : Connection(s) /\ UNCHANGED last
  \/ \E s \in Devices, c \in Channels :
       CallUser(s, Str(SB), Str(SA), c) /\ UNCHANGED last
  \/ \E p \in Handlers, ok \in BOOLEAN : CallCreate(p, ok) /\ UNCHANGED last
  \/ \E p \in Handlers : ResumeCallUser(p) /\ UNCHANGED last
  \/ \E s \in Devices, c \in Channels : JoinCallRoom(s, c) /\ UNCHANGED last
  \/ \E s \in Devices, c \in Channels : EndCall(s, c) /\ UNCHANGED last
  \/ \E p \in Handlers, ok \in BOOLEAN :
       CallUpdateMany(p, ok) /\ UNCHANGED last
  \/ \E p \in Handlers : ResumeEndCall(p) /\ UNCHANGED last
  \/ \E s \in Devices : Disconnect(s) /\ UNCHANGED last
  \/ \E p \in Handlers : ResumeDisconnect(p) /\ UNCHANGED last

SpecRedial == Init /\ [][NextRedial]_vars

\* The calls of two channels, between two sockets. `last` records the
\* handler a terminating step belongs to.
NextChannels ==
  \/ \E s \in Devices : Connection(s) /\ last' = [kind |-> "other"]
  \/ \E c \in TwoChannels :
       CallUser(1, Str(SB), Str(SA), c) /\ last' = [kind |-> "other"]
  \/ \E p \in Handlers : CallCreate(p, TRUE) /\ last' = [kind |-> "other"]
  \/ \E p \in Handlers : ResumeCallUser(p) /\ last' = [kind |-> "other"]
  \/ \E s \in Devices, c \in TwoChannels :
       JoinCallRoom(s, c) /\ last' = [kind |-> "other"]
  \/ \E s \in Devices, c \in TwoChannels :
       EndCall(s, c) /\ last' = [kind |-> "end-call", channel |-> c]
  \/ \E p \in Handlers, ok \in BOOLEAN :
       CallUpdateMany(p, ok) /\ last' = [kind |-> p.kind, channel |-> p.channel]
  \/ \E p \in Handlers :
       ResumeEndCall(p) /\ last' = [kind |-> p.kind, channel |-> p.channel]
  \/ \E s \in Devices :
       /\ Disconnect(s)
       /\ last' = [kind |-> "disconnect", channel |-> callChannel[s]]
  \/ \E p \in Handlers :
       ResumeDisconnect(p) /\ last' = [kind |-> p.kind, channel |-> p.channel]

SpecChannels == Init /\ [][NextChannels]_vars

\* The conversation id as a function of the two identities.
Chars == {55, Underscore, 97}

RECURSIVE StringsUpTo(_)
StringsUpTo(n) ==
  IF n = 0 THEN {<<>>}
  ELSE LET shorter == StringsUpTo(n - 1)
       IN shorter \cup {Append(s, c) : s \in shorter, c \in Chars}

\* the identities a send-message may carry: non-empty strings, and a number
ConvInputs ==
  {Str(s) : s \in StringsUpTo(MaxIdLen) \ {<<>>}} \cup {Num(7)}

SendConv(a, b) ==
  /\ conv' = [op |-> "send-message", sender |-> a, receiver |-> b,
              id |-> SendConversationId(a, b)]
  /\ UNCHANGED <<conn, userId, callChannel, rooms, activeCalls, calls, chats,
                 pending, emitted, acked, last>>

LookupConv(u1, u2) ==
  /\ conv' = [op |-> "messages", u1 |-> u1, u2 |-> u2,
              id |-> LookupConversationId(u1, u2)]
  /\ UNCHANGED <<conn, userId, callChannel, rooms, activeCalls, calls, chats,
                 pending, emitted, acked, last>>

NextConv ==
  \/ \E a \in ConvInputs, b \in ConvInputs : SendConv(a, b)
  \/ \E a \in ConvInputs, b \in ConvInputs :
       LookupConv(toString(a), toString(b))

SpecConv == Init /\ [][NextConv]_vars

\* ------------------------------------------------------------- claims
IsCallEnded(e, c) == e.ev = "call-ended" /\ e.room = c

\* the call-ended broadcasts to the room c in the bag B
CallEndedCount(B, c) == Count(B, LAMBDA e : IsCallEnded(e, c))

\* the suspended disconnect handlers of channel c in the bag B
Disconnecting(B, c) ==
  Count(B, LAMBDA p : p.kind = "disconnect" /\ p.channel = c)

\* the suspended end-call handlers of channel c in the bag B
EndingCall(B, c) ==
  BagWhere(B, LAMBDA p : p.kind = "end-call" /\ p.channel = c)

\* The handler executions that have run the whole termination sequence of
\* channel c (update issued, call-ended broadcast, membership entry deleted)
\* and that began while the channel had its membership entry.
Terminations(c) ==
  Count(emitted, LAMBDA e : IsCallEnded(e, c) /\ e.by.began = "live")
    - Disconnecting(pending, c)

\* C1: for every channel, at most one handler execution runs the termination
\* sequence (status update, call-ended broadcast, removal of the membership
\* entry), whatever end-call and disconnect events interleave.
C1_TerminationAtMostOnce == \A c \in Channels : Terminations(c) <= 1

DisconnectStep(s) == conn[s] = "connected" /\ conn'[s] = "disconnected"

\* C2: a disconnect of a socket whose callChannel c has a membership entry
\* broadcasts call-ended to c and issues the status update exactly when the
\* entry without that socket has at most one member; otherwise it broadcasts
\* nothing and updates nothing.
C2_DisconnectEndsIffAtMostOneLeft ==
  [][\A s \in Sockets :
       (/\ DisconnectStep(s)
        /\ Truthy(callChannel[s])
        /\ callChannel[s] \in DOMAIN activeCalls)
       => LET c == callChannel[s]
              left == activeCalls[c] \ {s}
          IN IF Cardinality(left) <= 1
             THEN /\ CallEndedCount(emitted', c) = CallEndedCount(emitted, c) + 1
                  /\ BagCardinality(emitted') = BagCardinality(emitted) + 1
                  /\ Disconnecting(pending', c) = Disconnecting(pending, c) + 1
                  /\ activeCalls'[c] = left
             ELSE /\ emitted' = emitted
                  /\ pending' = pending
                  /\ calls' = calls
                  /\ activeCalls'[c] = left]_vars

\* a socket has just left a room of two, and its handler has broadcast
\* call-ended and awaits the update
C2_Witness ==
  \E s \in Sockets, c \in Channels :
    /\ conn[s] = "disconnected" /\ callChannel[s] = c
    /\ c \in DOMAIN activeCalls
    /\ Cardinality(activeCalls[c]) = 1 /\ s \notin activeCalls[c]
    /\ BagCardinality(emitted) = 1 /\ CallEndedCount(emitted, c) = 1
    /\ \E p \in Handlers :
         p.kind = "disconnect" /\ p.sock = s /\ p.channel = c

\* C3: once the membership entry of a channel is gone (a termination has run
\* to completion), the disconnect of a socket whose callChannel is that
\* channel broadcasts nothing and issues no update.
C3_DisconnectAfterEndIsSilent ==
  [][\A s \in Sockets :
       (/\ DisconnectStep(s)
        /\ Truthy(callChannel[s])
        /\ callChannel[s] \notin DOMAIN activeCalls)
       => /\ emitted' = emitted
          /\ pending' = pending
          /\ calls' = calls
          /\ activeCalls' = activeCalls]_vars

\* A and B joined c, the disconnect of one ended the call for good (one
\* broadcast, record ended, entry deleted) and the other has disconnected too
C3_Witness ==
  \E a \in Sockets, b \in Sockets, c \in Channels :
    /\ a # b
    /\ conn[a] = "disconnected" /\ conn[b] = "disconnected"
    /\ callChannel[a] = c /\ callChannel[b] = c
    /\ c \notin DOMAIN activeCalls
    /\ pending = EmptyBag
    /\ CallEndedCount(emitted, c) = 1
    /\ \E e \in BagToSet(emitted) :
         IsCallEnded(e, c) /\ e.by.kind = "disconnect"
    /\ \E i \in DOMAIN calls :
         calls[i].channel = c /\ calls[i].status = "ended"

\* a step of an end-call handler of channel c
EndCallStep(c) == EndingCall(pending', c) # EndingCall(pending, c)

\* C4: in a state where the call of a channel is terminated, every step of an
\* end-call handler of that channel leaves the calls collection and the
\* activeCalls map as they are; all it may do is broadcast call-ended again.
C4_EndCallIdempotent ==
  [][\A c \in Channels :
       (EndCallStep(c) /\ Terminated(c))
       => /\ calls' = calls
          /\ activeCalls' = activeCalls
          /\ UNCHANGED <<conn, userId, callChannel, rooms, chats, acked>>
          /\ \/ emitted' = emitted
             \/ \E e \in BagToSet(emitted') :
                  IsCallEnded(e, c) /\ emitted' = emitted (+) One(e)]_vars

\* an end-call that began after the call was terminated has run to its end
C4_Witness ==
  \E c \in Channels :
    /\ Terminated(c)
    /\ pending = EmptyBag
    /\ \E i \in DOMAIN calls :
         calls[i].channel = c /\ calls[i].status = "ended"
    /\ \E e \in BagToSet(emitted) : IsCallEnded(e, c) /\ e.by.began = "live"
    /\ \E e \in BagToSet(emitted) : IsCallEnded(e, c) /\ e.by.began = "over"

\* the documents of the chats collection
Stored == {chats[i] : i \in DOMAIN chats}

IsNewMessage(e) == e.ev = "new-message"

\* C5: every new-message event carries a record that is in the chats
\* collection when it is delivered, and a send-message whose Chat.create
\* failed delivers nothing when it resumes.
C5_DeliveredAfterStored ==
  /\ [](\A e \in BagToSet(emitted) : IsNewMessage(e) => e.payload \in Stored)
  /\ [][\A p \in Handlers :
          (/\ p.kind = "send-message" /\ p.phase = "fail"
           /\ pending' = pending (-) One(p))
          => emitted' = emitted]_vars

\* a stored message has reached a registered socket
C5_Witness ==
  \E e \in BagToSet(emitted) :
    IsNewMessage(e) /\ e.payload \in Stored /\ e.to # {}

EmptyOrAbsent(v) == v = Undef \/ v = Str(<<>>)

\* C6: a send-message whose sender, receiver or body is empty or absent
\* changes nothing: no chat record, no event, no suspended handler.
C6_RejectedSendChangesNothing ==
  [][(/\ last'.kind = "send-message"
      /\ \/ EmptyOrAbsent(last'.data.sender)
         \/ EmptyOrAbsent(last'.data.receiver)
         \/ EmptyOrAbsent(last'.data.message))
     => UNCHANGED progVars]_vars

\* a send-message from "a" to "b" with an empty body has been handled by a
\* server where "b" is registered
C6_Witness ==
  /\ last.kind = "send-message"
  /\ last.data = Payload(Str(SA), Str(SB), Str(<<>>))
  /\ \E s \in Sockets : userId[s] = Str(SB)
  /\ chats = <<>> /\ emitted = EmptyBag /\ pending = EmptyBag

\* the send-message that stored m has run to its end
Delivered(m) ==
  m \in Stored /\ ~\E p \in Handlers : p.kind = "send-message" /\ p.res = m

\* C7: for every stored message, the sender's room and the receiver's room
\* are each sent exactly one new-message carrying it, and no socket receives
\* it more than once (sender = receiver included).
C7_EachRoomOnce ==
  \A m \in Stored :
    Delivered(m) =>
      /\ Count(emitted, LAMBDA e :
                 IsNewMessage(e) /\ e.payload = m /\ e.room = m.sender) = 1
      /\ Count(emitted, LAMBDA e :
                 IsNewMessage(e) /\ e.payload = m /\ e.room = m.receiver) = 1
      /\ \A x \in Sockets :
           Count(emitted, LAMBDA e :
                   IsNewMessage(e) /\ e.payload = m /\ x \in e.to) <= 1

\* C8: the conversation id send-message computes for (sender, receiver) is
\* the one it computes for (receiver, sender), and the one the history
\* lookup computes for the two identities in either order.
C8_ConversationIdSymmetric ==
  /\ conv.op = "send-message" =>
       /\ conv.id = SendConversationId(conv.receiver, conv.sender)
       /\ conv.id = LookupConversationId(toString(conv.sender),
                                         toString(conv.receiver))
       /\ conv.id = LookupConversationId(toString(conv.receiver),
                                         toString(conv.sender))
  /\ conv.op = "messages" =>
       /\ conv.id = LookupConversationId(conv.u2, conv.u1)
       /\ conv.id = SendConversationId(Str(conv.u2), Str(conv.u1))

\* a message whose sender sorts after its receiver, one a prefix of the other
C8_Witness ==
  /\ conv.op = "send-message"
  /\ StrLess(toString(conv.receiver), toString(conv.sender))
  /\ Len(toString(conv.receiver)) < Len(toString(conv.sender))
  /\ Head(toString(conv.receiver)) = Head(toString(conv.sender))

\* the personal rooms
PersonalRooms == {Str(toString(u)) : u \in {v \in IdInputs : Truthy(v)}}

\* C9: a socket is in the personal room of an identity only if that identity
\* is the one it is registered under.
C9_PersonalRoomHoldsOnlyOwner ==
  \A s \in Sockets, room \in PersonalRooms :
    room \in rooms[s] => userId[s] = room

\* C10: a register of a socket under the identity it is bound to changes
\* neither the binding nor any room; under an identity whose room it is in
\* already, it leaves the members of that room as they are.
C10_ReRegisterChangesNothing ==
  [][\A s \in Sockets :
       (/\ last'.kind = "register"
        /\ last'.sock = s
        /\ ~EmptyOrAbsent(last'.data))
       => LET room == Str(toString(last'.data))
          IN /\ room \in rooms[s]
                  => Members(rooms', room) = Members(rooms, room)
             /\ userId[s] = room
                  => userId' = userId /\ rooms' = rooms]_vars

\* a socket bound to an identity has registered under it again
C10_Witness ==
  /\ last.kind = "register"
  /\ ~EmptyOrAbsent(last.data)
  /\ last.was = Str(toString(last.data))
  /\ userId[last.sock] = last.was
  /\ last.was \in rooms[last.sock]

IsIncomingCall(e) == e.ev = "incoming-call"

\* the call record Call.create stores for the payload of an incoming-call
\* event sent to the room `room`
RecordOf(e, r) ==
  /\ r.caller = CastString(e.payload.from)
  /\ r.receiver = e.room
  /\ r.channel = CastString(e.payload.channel)

\* C11: every incoming-call event has a call record of its caller, receiver
\* and channel in the calls collection when it is emitted, every call record
\* enters the collection with status "ongoing", and a call-user whose
\* Call.create failed emits nothing when it resumes.
C11_IncomingCallAfterPersisted ==
  /\ [](\A e \in BagToSet(emitted) :
          IsIncomingCall(e) => \E i \in DOMAIN calls : RecordOf(e, calls[i]))
  /\ [][\A i \in DOMAIN calls' \ DOMAIN calls :
          calls'[i].status = "ongoing"]_vars
  /\ [][\A p \in Handlers :
          (/\ p.kind = "call-user" /\ p.phase = "fail"
           /\ pending' = pending (-) One(p))
          => emitted' = emitted]_vars

\* "b" is registered and has been sent the incoming-call of a stored call
C11_Witness ==
  \E e \in BagToSet(emitted) :
    /\ IsIncomingCall(e) /\ e.to # {} /\ e.room = Str(SB)
    /\ \E i \in DOMAIN calls :
         RecordOf(e, calls[i]) /\ calls[i].status = "ongoing"

\* the step resumes a terminating handler whose Call.updateMany was rejected
FailedTermination(l) ==
  /\ l.kind = "resume"
  /\ l.p.kind \in {"end-call", "disconnect"}
  /\ l.p.phase = "fail"

\* C12: a terminating handler whose status update was rejected still ends the
\* live session: the end-call handler broadcasts call-ended to the room and
\* deletes the membership entry when it resumes; the disconnect handler has
\* broadcast call-ended before the update and deletes the entry when it
\* resumes.
C12_TerminationSurvivesFailedUpdate ==
  [][FailedTermination(last')
     => LET p == last'.p
        IN /\ p.channel \notin DOMAIN activeCalls'
           /\ IF p.kind = "end-call"
              THEN /\ emitted' = emitted
                        (+) One(CallEnded(rooms, p.channel, By(p)))
                   /\ CallEndedCount(emitted', p.channel)
                        = CallEndedCount(emitted, p.channel) + 1
              ELSE /\ emitted' = emitted
                   /\ \E e \in BagToSet(emitted) :
                        IsCallEnded(e, p.channel)
                          /\ e.by.kind = "disconnect"]_vars

\* the end-call of a joined channel has resumed after a rejected update: the
\* record is still "ongoing", the members of the room were sent call-ended
\* and the membership entry is gone
C12_Witness ==
  /\ FailedTermination(last)
  /\ last.p.kind = "end-call" /\ last.p.began = "live"
  /\ last.p.channel \notin DOMAIN activeCalls
  /\ Ongoing(last.p.channel)
  /\ \E e \in BagToSet(emitted) :
       IsCallEnded(e, last.p.channel) /\ e.by = By(last.p) /\ e.to # {}

\* C13: a call record with status "ended" keeps that status, and all its
\* fields, in every step of a call-user, join-call-room, end-call or
\* disconnect handler and of the store.
C13_EndedIsTerminal ==
  [][\A i \in DOMAIN calls :
       calls[i].status = "ended"
       => i \in DOMAIN calls' /\ calls'[i] = calls[i]]_vars

\* a call-user has run to its end on the channel of an ended call: its record
\* is "ongoing" (it was stored after the update that ended the first one), and
\* the first record is still "ended"
C13_Witness ==
  /\ Len(calls) = 2
  /\ calls[1].channel = calls[2].channel
  /\ calls[1].status = "ended" /\ calls[2].status = "ongoing"
  /\ pending = EmptyBag
  /\ Count(emitted, LAMBDA e : e.ev = "incoming-call") = 2

\* activeCalls.get(d), as a set with at most one element
EntryOf(m, d) == IF d \in DOMAIN m THEN {m[d]} ELSE {}

\* the call records of channel d
RecordsOf(cs, d) == {cs[i] : i \in {j \in DOMAIN cs : cs[j].channel = d}}

\* the step belongs to an end-call handler or to a disconnect handler
TerminatingStep(l) == l.kind \in {"end-call", "disconnect"}

\* C14: every step of an end-call handler of channel c and of the disconnect
\* handler of a socket whose callChannel is c, the update of the store
\* included and whether it succeeds or fails, leaves the membership entry and
\* the call records of every other channel as they are.
C14_TerminationLeavesOtherChannels ==
  [][TerminatingStep(last')
     => \A d \in TwoChannels \ {last'.channel} :
          /\ EntryOf(activeCalls', d) = EntryOf(activeCalls, d)
          /\ RecordsOf(calls', d) = RecordsOf(calls, d)]_vars

\* a termination of one channel has run to its end (its record is ended, its
\* entry is gone, the room was told) while the other channel has a member
\* and an ongoing record
C14_Witness ==
  /\ TerminatingStep(last)
  /\ pending = EmptyBag
  /\ last.channel \in TwoChannels
  /\ last.channel \notin DOMAIN activeCalls
  /\ \E r \in RecordsOf(calls, last.channel) : r.status = "ended"
  /\ \E e \in BagToSet(emitted) : IsCallEnded(e, last.channel) /\ e.to # {}
  /\ \E d \in TwoChannels \ {last.channel} :
       /\ d \in DOMAIN activeCalls /\ activeCalls[d] # {}
       /\ \E r \in RecordsOf(calls, d) : r.status = "ongoing"

\* the sockets registered under the identity u
ConnectionsOf(u) == {s \in Sockets : userId[s] = u}

\* the sockets of the caller and of the receiver of the call record r
Parties(r) == ConnectionsOf(r.caller) \cup ConnectionsOf(r.receiver)

\* the call of the record r was never answered: no socket of its receiver
\* has joined a call room
Unanswered(r) == ConnectionsOf(r.receiver) \cap acked = {}

\* the call record r has a caller, a receiver and a channel
Complete(r) == r.caller # Undef /\ r.receiver # Undef /\ r.channel # Undef

\* C15: once every socket of the caller and of the receiver of an unanswered
\* call has disconnected and the disconnect handlers have run to their end,
\* the call record has status "ended".
C15_EndedOnceAllPartiesGone ==
  \A i \in DOMAIN calls :
    (/\ Complete(calls[i])
     /\ Unanswered(calls[i])
     /\ Parties(calls[i]) # {}
     /\ \A s \in Parties(calls[i]) : conn[s] = "disconnected"
     /\ pending = EmptyBag)
    => calls[i].status = "ended"

\* C16: no call record and no incoming-call event comes from a call-user
\* whose payload lacks `to`, `from` or `channel`: every stored record and
\* every emitted event has all of its fields.
C16_MalformedCallChangesNothing ==
  /\ \A i \in DOMAIN calls : Complete(calls[i])
  /\ \A e \in BagToSet(emitted) :
       IsIncomingCall(e)
       => e.payload.from # Undef /\ e.payload.channel # Undef

\* the sockets that joined the call room c since its last termination
\* completed and are still connected: the membership set of c
JoinedSince(c) == UNION EntryOf(activeCalls, c)

\* the events the step adds to the emitted ones
NewlyEmitted ==
  {e \in BagToSet(emitted') : CopiesIn(e, emitted') > CopiesIn(e, emitted)}

\* every call-ended broadcast reaches only sockets that joined the room since
\* the last completed termination of the channel
CallEndedReachesJoined ==
  [][\A e \in NewlyEmitted :
       e.ev = "call-ended" => e.to \subseteq JoinedSince(e.room)]_vars

\* C17: a channel without a membership entry (no call yet, or its termination
\* has completed) has no socket in its broadcast room, and a later call-ended
\* broadcast to the channel reaches no socket that has not joined it again.
C17_RoomEmptyAfterTermination ==
  /\ [](\A c \in Channels :
          c \notin DOMAIN activeCalls => Members(rooms, c) = {})
  /\ CallEndedReachesJoined

\* C18: the disconnect of a socket that is not in the membership set of its
\* callChannel (the call it joined is over, and the set, if there is one,
\* belongs to a later call) broadcasts nothing and issues no status update.
C18_OnlyMembersTerminate ==
  [][\A s \in Sockets :
       (DisconnectStep(s) /\ s \notin JoinedSince(callChannel[s]))
       => /\ emitted' = emitted
          /\ pending' = pending
          /\ calls' = calls]_vars

\* C19: when no disconnect handler is suspended, every socket id in a
\* membership set of activeCalls is the id of a connected socket.
C19_MembersAreConnected ==
  (\A p \in Handlers : p.kind # "disconnect")
  => \A c \in DOMAIN activeCalls :
       \A s \in activeCalls[c] : conn[s] = "connected"

\* C20: every stored chat record, and every record a new-message event
\* carries, has a non-empty message body.
C20_NoEmptyBody ==
  /\ \A m \in Stored : m.message # Str(<<>>)
  /\ \A e \in BagToSet(emitted) :
       IsNewMessage(e) => e.payload.message # Str(<<>>)
====
